---- MODULE Spec2Model ----
(***************************************************************************)
(* PatternDrawer (plugins/builtin/source/ui/pattern_drawer.cpp): the       *)
(* visitor that renders a tree of pattern nodes as a sortable, paginated   *)
(* table.  One top-level draw call is one action; the recursive traversal  *)
(* is computed by recursive operators that thread the drawer's state.      *)
(***************************************************************************)
EXTENDS Integers, Sequences, FiniteSets, TLC

VARIABLES
    m_sortedPatterns,   \* PatternDrawer::m_sortedPatterns, the cached top-level order
    m_displayEnd,       \* PatternDrawer::m_displayEnd, pattern -> revealed chunk count
    members,            \* the pattern model: each composite's entries, in their current order
    flags,              \* the pattern model: the sets of hidden, sealed and inlined patterns
    sortSpecs,          \* ImGuiTableSortSpecs: SpecsDirty, ColumnUserID, SortDirection
    selection,          \* ImHexApi::HexEditor::getSelection(), an optional Region
    rows,               \* the table rows the last top-level draw emitted, in order
    visited,            \* the patterns whose visit() ran in the last call, with the parent they were reached through
    call,               \* the last top-level draw: its root sequence, what BeginTable returned,
                        \* SpecsDirty at its entry, whether it repeats the call before it (same
                        \* non-empty roots, table opened, sort spec not marked in between),
                        \* whether the sort ran and called the comparator, the tree level it
                        \* ended at and its number of TreePop calls; tick flips at every call
    marked,             \* the sort spec was marked dirty since the last top-level draw
    reveals             \* per pattern, the number of double-clicks on its placeholder row so far

vars == <<m_sortedPatterns, m_displayEnd, members, flags, sortSpecs, selection,
          rows, visited, call, marked, reveals>>

----------------------------------------------------------------------------
(* Program constants *)

DisplayEndDefault == 50
DisplayEndStep == 50
ChunkSize == 50

(* Bounds of the model *)

\* u64 arithmetic is computed modulo 2^WordBits; every offset and size of the
\* pattern model below stays under 2^(WordBits - 1).
WordBits == 16
\* number of entries of the static array "big"
BigCount == 5001
\* the chunk rows of an array that the drawing surface may report open are
\* those starting at an index below MaxOpenChunk * ChunkSize
MaxOpenChunk == 1

Modulus == 2 ^ WordBits
U64(x) == x % Modulus

----------------------------------------------------------------------------
(* The pattern model (pl::ptrn::Pattern and its subclasses).  Names, type   *)
(* names and values are given by their rank in the order operator< / >      *)
(* compares them in.                                                        *)

Ptrn(kind, offset, size, name, type, value, color, entries, pointee, count) ==
    [kind |-> kind, offset |-> offset, size |-> size, name |-> name, type |-> type,
     value |-> value, color |-> color, entries |-> entries, pointee |-> pointee,
     count |-> count]

Pattern ==
    \* three sibling scalars at offsets 10, 5, 20; x and y tie on size, y and z on color
       "x"   :> Ptrn("unsigned",       10,  4, 3, 1, 7, 2, <<>>, "", 0)
    @@ "y"   :> Ptrn("signed",          5,  4, 1, 2, 9, 1, <<>>, "", 0)
    @@ "z"   :> Ptrn("float",          20,  2, 2, 3, 8, 1, <<>>, "", 0)
    \* a struct spanning [100,110)
    @@ "st"  :> Ptrn("struct",        100, 10, 4, 4, 1, 3, <<"a", "b">>, "", 0)
    @@ "a"   :> Ptrn("unsigned",      100,  4, 5, 1, 2, 3, <<>>, "", 0)
    @@ "b"   :> Ptrn("enum",          104,  6, 6, 5, 3, 3, <<>>, "", 0)
    \* a union with a scalar, an empty string and padding
    @@ "un"  :> Ptrn("union",          40,  4, 7, 6, 1, 4, <<"ua", "s0", "pd">>, "", 0)
    @@ "ua"  :> Ptrn("character",      40,  1, 8, 7, 4, 4, <<>>, "", 0)
    @@ "s0"  :> Ptrn("string",         41,  0, 9, 8, 5, 4, <<>>, "", 0)
    @@ "pd"  :> Ptrn("padding",        41,  3, 10, 9, 6, 4, <<>>, "", 0)
    \* a bitfield with two fields
    @@ "bf"  :> Ptrn("bitfield",       50,  1, 11, 10, 1, 5, <<"f1", "f2">>, "", 0)
    @@ "f1"  :> Ptrn("bitfieldfield",  50,  1, 12, 11, 1, 5, <<>>, "", 0)
    @@ "f2"  :> Ptrn("bitfieldfield",  50,  1, 13, 11, 0, 5, <<>>, "", 0)
    \* a pointer to a struct
    @@ "ptr" :> Ptrn("pointer",        60,  4, 14, 12, 200, 6, <<>>, "pt", 0)
    @@ "pt"  :> Ptrn("struct",        200,  4, 15, 4, 1, 6, <<"pc">>, "", 0)
    @@ "pc"  :> Ptrn("boolean",       200,  4, 16, 13, 1, 6, <<>>, "", 0)
    \* a dynamic array of three entries, an empty one, and an empty struct
    @@ "dyn" :> Ptrn("arraydynamic",   70,  6, 17, 14, 1, 7, <<"e1", "e2", "e3">>, "", 0)
    @@ "e1"  :> Ptrn("unsigned",       70,  2, 18, 1, 3, 7, <<>>, "", 0)
    @@ "e2"  :> Ptrn("unsigned",       72,  2, 19, 1, 1, 7, <<>>, "", 0)
    @@ "e3"  :> Ptrn("unsigned",       74,  2, 20, 1, 2, 7, <<>>, "", 0)
    @@ "emp" :> Ptrn("arraydynamic",   80,  0, 21, 14, 1, 8, <<>>, "", 0)
    @@ "es"  :> Ptrn("struct",        106,  0, 22, 4, 1, 8, <<>>, "", 0)
    \* a static array: BigCount entries generated from the template "t"
    @@ "big" :> Ptrn("arraystatic",  1000, BigCount, 23, 15, 1, 9, <<>>, "t", BigCount)
    @@ "t"   :> Ptrn("widecharacter", 1000, 1, 24, 15, 1, 9, <<>>, "", 0)

Patterns == DOMAIN Pattern

CompositeKinds == {"struct", "union", "bitfield", "pointer", "arraydynamic", "arraystatic"}
ArrayKinds == {"arraydynamic", "arraystatic"}
Composites == {p \in Patterns : Pattern[p].kind \in CompositeKinds}

\* std::optional<Region>
NoSelection == [valid |-> FALSE, address |-> 0, size |-> 0]
Region(address, size) == [valid |-> TRUE, address |-> address, size |-> size]

\* A reference to a pattern as the traversal holds it: the entries of a static
\* array are clones of its template placed at offset + index * size.
Ref(id) == [id |-> id, off |-> Pattern[id].offset]

\* the id the drawing surface keeps a tree node's open state under
TreeId(id) == <<id, -1>>
ChunkId(id, i) == <<id, i>>

----------------------------------------------------------------------------
(* Selection Highlighter *)

\* Region::overlaps: the standard overlap test of two half-open ranges, an
\* empty range overlapping nothing
overlaps(r, other) ==
    /\ r.size > 0
    /\ other.size > 0
    /\ r.address < other.address + other.size
    /\ other.address < r.address + r.size

isPatternSelectedAddressOnly(sel, address, size) ==
    IF ~sel.valid
        THEN FALSE
        ELSE overlaps(Region(address, 1), sel)

isPatternSelected(sel, address, size) ==
    IF ~sel.valid
        THEN FALSE
        ELSE overlaps(Region(address, size), sel)

\* highlightWhenSelected(pattern, callback): whether the callback's text is
\* drawn between PushStyleColor and PopStyleColor
highlightWhenSelected(sel, p) ==
    isPatternSelected(sel, p.off, Pattern[p.id].size)

----------------------------------------------------------------------------
(* Rows *)

\* kind: "leaf" (createLeafNode), "tree" (TreeNodeEx), "flat" (the indented text of
\* a sealed pattern), "chunk" (a chunk summary), "more" (the placeholder);
\* open: what TreeNodeEx returned; hl: the name is drawn highlighted
NodeRow(p, kind, open, e) ==
    [node |-> p.id, kind |-> kind, first |-> -1, last |-> -1, off |-> p.off,
     size |-> Pattern[p.id].size, open |-> open,
     hl |-> highlightWhenSelected(e.selection, p)]

\* ImGui::TableNextRow() and the row's first column: the row is appended, at
\* the tree level the drawing surface is at
Emit(st, row) ==
    [st EXCEPT !.rows = Append(@, [node |-> row.node, kind |-> row.kind,
                                   first |-> row.first, last |-> row.last,
                                   off |-> row.off, size |-> row.size,
                                   open |-> row.open, hl |-> row.hl,
                                   depth |-> st.depth])]

TreePopSkipped(st) == st

\* ImGui::TreePop(): one level less; popping at level zero is an error
TreePop(st) ==
    IF st.depth = 0
        THEN [st EXCEPT !.underflow = TRUE, !.pops = @ + 1]
        ELSE [st EXCEPT !.depth = @ - 1, !.pops = @ + 1]

TreePush(st) == [st EXCEPT !.depth = @ + 1]

\* TRUE of every traversal state.  TLC evaluates an operator's arguments when
\* they are first used; the loops below test this on the state one iteration
\* yields before they hand it to the next, so that each iteration is evaluated
\* in turn.
Evaluated(st) == st.depth >= 0

isSealed(p, e) == p.id \in e.sealed
isInlined(p, e) == p.id \in e.inlined
isHidden(p, e) == p.id \in e.hidden

createTreeNodeOpensSealed(p, e) ==
    TreeId(p.id) \in e.open

\* createTreeNode: FALSE for a sealed pattern (drawn as indented text), else
\* what ImGui::TreeNodeEx returns, the open state of the tree node
createTreeNode(p, e) ==
    IF isSealed(p, e)
        THEN FALSE
        ELSE TreeId(p.id) \in e.open

\* makeSelectable: the row's Selectable; the click-th Selectable of the call is
\* the clicked one and requests the selection of the pattern's range
makeSelectable(st, p, e) ==
    LET k == st.selectables + 1
    IN  [st EXCEPT !.selectables = k,
                   !.request = IF k = e.click
                                  THEN Region(p.off, Pattern[p.id].size)
                                  ELSE @]

\* createDefaultEntry and the other leaf rows (bitfield field, enum)
createDefaultEntry(st, p, e) ==
    makeSelectable(Emit(st, NodeRow(p, "leaf", FALSE, e)), p, e)

\* the header row of a composite that is not inlined: createTreeNode, which
\* pushes a tree level when it returns true, then makeSelectable
Header(st, p, e) ==
    LET open == createTreeNode(p, e)
        s1 == Emit(st, NodeRow(p, IF isSealed(p, e) THEN "flat" ELSE "tree", open, e))
        s2 == IF open THEN TreePush(s1) ELSE s1
    IN  makeSelectable(s2, p, e)

----------------------------------------------------------------------------
(* Disclosure Controller *)

getDisplayEndReset(displayEnd, id) ==
    [n \in DOMAIN displayEnd \cup {id} |->
        IF n = id THEN DisplayEndDefault ELSE displayEnd[n]]

\* getDisplayEnd: the map after the call; the reference it returns is the
\* map's entry for the pattern, created with the default on first access
getDisplayEnd(displayEnd, id) ==
    IF id \in DOMAIN displayEnd
        THEN displayEnd
        ELSE [n \in DOMAIN displayEnd \cup {id} |->
                IF n = id THEN DisplayEndDefault ELSE displayEnd[n]]

placeholderDueInclusive(chunkCount, displayEnd) ==
    chunkCount >= displayEnd

\* drawArray: chunkCount > displayEnd, the chunk is replaced by the placeholder row
placeholderDue(chunkCount, displayEnd) ==
    chunkCount > displayEnd

Min(a, b) == IF a < b THEN a ELSE b

\* Iteratable::getEntryCount
getEntryCount(p, e) ==
    IF Pattern[p.id].kind = "arraystatic"
        THEN Pattern[p.id].count
        ELSE Len(e.members[p.id])

\* Iteratable::getEntry / the entry forEachEntry hands to its callback
getEntry(p, i, e) ==
    IF Pattern[p.id].kind = "arraystatic"
        THEN [id |-> Pattern[p.id].pointee,
              off |-> U64(p.off + i * Pattern[Pattern[p.id].pointee].size)]
        ELSE Ref(e.members[p.id][i + 1])

ChunkRow(p, i, endIndex, e) ==
    LET startOffset == getEntry(p, i, e).off
        endOffset == getEntry(p, endIndex - 1, e).off
        endSize == Pattern[getEntry(p, endIndex - 1, e).id].size
        chunkSize == U64(U64(endOffset - startOffset) + endSize)
    IN  [node |-> p.id, kind |-> "chunk", first |-> i, last |-> endIndex - 1,
         off |-> startOffset, size |-> chunkSize,
         open |-> ChunkId(p.id, i) \in e.open,
         hl |-> isPatternSelected(e.selection, startOffset,
                                  U64(U64(U64(endOffset + endSize) - startOffset) - 1))]

MoreRow(p) ==
    [node |-> p.id, kind |-> "more", first |-> -1, last |-> -1, off |-> 0,
     size |-> 0, open |-> FALSE, hl |-> FALSE]

----------------------------------------------------------------------------
(* Visitor Dispatcher *)

RECURSIVE draw(_, _, _, _)
RECURSIVE accept(_, _, _, _)
RECURSIVE forEachEntry(_, _, _, _, _)
RECURSIVE drawChunks(_, _, _, _, _)
RECURSIVE chunkStep(_, _, _, _)
RECURSIVE drawArray(_, _, _)
RECURSIVE visitPatternStruct(_, _, _)
RECURSIVE visitPatternUnion(_, _, _)
RECURSIVE visitPatternBitfield(_, _, _)
RECURSIVE visitPatternPointer(_, _, _)

\* PatternDrawer::draw(pl::ptrn::Pattern&): `via` is the pattern whose visit calls it
draw(st, p, via, e) ==
    IF isHidden(p, e)
        THEN st
        ELSE accept(st, p, via, e)

\* forEachEntry(start, end, fn) / forEachMember(fn) with fn = this->draw: the
\* entries start .. end - 1 in order, the first half of the range, then the rest
forEachEntry(st, p, start, end, e) ==
    IF start >= end
        THEN st
        ELSE IF end - start = 1
            THEN draw(st, getEntry(p, start, e), p.id, e)
            ELSE LET mid == start + ((end - start) \div 2)
                     s == forEachEntry(st, p, start, mid, e)
                 IN  IF Evaluated(s) THEN forEachEntry(s, p, mid, end, e) ELSE s

visitPatternString(st, p, e) ==
    IF Pattern[p.id].size > 0
        THEN createDefaultEntry(st, p, e)
        ELSE st

visitPatternPadding(st, p, e) == st

visitPatternStruct(st, p, e) ==
    LET inl == isInlined(p, e)
        open == IF inl THEN TRUE ELSE createTreeNode(p, e)
        s1 == IF inl THEN st ELSE Header(st, p, e)
    IN  IF open
            THEN LET s2 == forEachEntry(s1, p, 0, Len(e.members[p.id]), e)
                 IN  IF ~inl THEN TreePop(s2) ELSE s2
            ELSE s1

visitPatternUnion(st, p, e) ==
    LET inl == isInlined(p, e)
        open == IF inl THEN TRUE ELSE createTreeNode(p, e)
        s1 == IF inl THEN st ELSE Header(st, p, e)
    IN  IF open
            THEN LET s2 == forEachEntry(s1, p, 0, getEntryCount(p, e), e)
                 IN  IF ~inl THEN TreePop(s2) ELSE s2
            ELSE s1

visitPatternBitfield(st, p, e) ==
    LET inl == isInlined(p, e)
        open == IF inl THEN TRUE ELSE createTreeNode(p, e)
        s1 == IF inl THEN st ELSE Header(st, p, e)
    IN  IF open
            THEN LET s2 == forEachEntry(s1, p, 0, Len(e.members[p.id]), e)
                 IN  IF ~inl THEN TreePop(s2) ELSE s2
            ELSE s1

\* the pointee is visited by accept, not by draw
visitPatternPointer(st, p, e) ==
    LET inl == isInlined(p, e)
        open == IF inl THEN TRUE ELSE createTreeNode(p, e)
        s1 == IF inl THEN st ELSE Header(st, p, e)
    IN  IF open
            THEN LET s2 == accept(s1, Ref(Pattern[p.id].pointee), p.id, e)
                 IN  IF ~inl THEN TreePop(s2) ELSE s2
            ELSE s1

\* one iteration of the chunk loop of drawArray, the one with i = k * ChunkSize
\* and chunkCount = k + 1 after its increment; nothing once the loop was left
\* by break
chunkStep(st, p, k, e) ==
    IF st.broke
        THEN st
        ELSE LET i == k * ChunkSize
                 chunkCount == k + 1
                 displayEnd == getDisplayEnd(st.displayEnd, p.id)
                 s0 == [st EXCEPT !.displayEnd = displayEnd]
             IN  IF placeholderDue(chunkCount, displayEnd[p.id])
                    THEN LET n == s0.more + 1
                         IN  [Emit(s0, MoreRow(p)) EXCEPT
                                !.more = n,
                                !.broke = TRUE,
                                !.displayEnd =
                                    IF n = e.dbl
                                        THEN [displayEnd EXCEPT ![p.id] = @ + DisplayEndStep]
                                        ELSE displayEnd]
                    ELSE LET endIndex == Min(getEntryCount(p, e), i + ChunkSize)
                             s1 == Emit(s0, ChunkRow(p, i, endIndex, e))
                         IN  IF ChunkId(p.id, i) \in e.open
                                THEN TreePop(forEachEntry(TreePush(s1), p, i, endIndex, e))
                                ELSE s1

\* the iterations from .. to - 1 of the chunk loop, in order
drawChunks(st, p, from, to, e) ==
    IF from >= to
        THEN st
        ELSE IF to - from = 1
            THEN chunkStep(st, p, from, e)
            ELSE LET mid == from + ((to - from) \div 2)
                     s == drawChunks(st, p, from, mid, e)
                 IN  IF Evaluated(s) THEN drawChunks(s, p, mid, to, e) ELSE s

\* the number of iterations of for (i = 0; i < count; i += ChunkSize) without break
ChunkCount(count) == (count + ChunkSize - 1) \div ChunkSize

drawArray(st, p, e) ==
    IF getEntryCount(p, e) = 0
        THEN st
        ELSE LET inl == isInlined(p, e)
                 open == IF inl THEN TRUE ELSE createTreeNode(p, e)
                 s1 == IF inl THEN st ELSE Header(st, p, e)
             IN  IF open
                    THEN LET s2 == [drawChunks([s1 EXCEPT !.broke = FALSE], p, 0,
                                                ChunkCount(getEntryCount(p, e)), e)
                                        EXCEPT !.broke = FALSE]
                         IN  IF ~inl THEN TreePop(s2) ELSE s2
                    ELSE s1

\* pattern.accept(*this): the visit() overload of the pattern's kind
accept(st, p, via, e) ==
    LET s == [st EXCEPT !.visited = Append(@, [node |-> p.id, via |-> via])]
        kind == Pattern[p.id].kind
    IN  CASE kind \in ArrayKinds -> drawArray(s, p, e)
          [] kind = "bitfield" -> visitPatternBitfield(s, p, e)
          [] kind = "pointer" -> visitPatternPointer(s, p, e)
          [] kind = "struct" -> visitPatternStruct(s, p, e)
          [] kind = "union" -> visitPatternUnion(s, p, e)
          [] kind = "padding" -> visitPatternPadding(s, p, e)
          [] kind \in {"string", "widestring"} -> visitPatternString(s, p, e)
          [] OTHER -> createDefaultEntry(s, p, e)

----------------------------------------------------------------------------
(* Sort Engine *)

Columns == {"name", "offset", "size", "value", "type", "color"}

sortPatternsConventional(specs, left, right) ==
    LET l == Pattern[left]
        r == Pattern[right]
        asc == specs.SortDirection = "Ascending"
        col == specs.ColumnUserID
    IN  IF col \in Columns
            THEN IF asc THEN l[col] < r[col] ELSE l[col] > r[col]
            ELSE FALSE

\* sortPatterns(sortSpecs, left, right)
sortPatterns(specs, left, right) ==
    LET l == Pattern[left]
        r == Pattern[right]
        asc == specs.SortDirection = "Ascending"
        col == specs.ColumnUserID
    IN  IF col = "name"
            THEN IF asc THEN l.name > r.name ELSE l.name < r.name
        ELSE IF col = "offset"
            THEN IF asc THEN l.offset > r.offset ELSE l.offset < r.offset
        ELSE IF col = "size"
            THEN IF asc THEN l.size > r.size ELSE l.size < r.size
        ELSE IF col = "value"
            THEN IF asc THEN l.value > r.value ELSE l.value < r.value
        ELSE IF col = "type"
            THEN IF asc THEN l.type > r.type ELSE l.type < r.type
        ELSE IF col = "color"
            THEN IF asc THEN l.color > r.color ELSE l.color < r.color
        ELSE FALSE

\* seq with x put in after its first k elements
InsertAt(seq, k, x) ==
    [i \in 1..(Len(seq) + 1) |->
        IF i <= k THEN seq[i] ELSE IF i = k + 1 THEN x ELSE seq[i - 1]]

\* std::sort(first, last, comp): some rearrangement of seq in which no element
\* is ordered before one that precedes it, i.e. any s with
\* ~comp(s[j], s[i]) for all i < j; the order of equivalent elements is
\* unspecified.  Built by putting the head into every place of a sorted
\* rearrangement of the tail where it breaks no pair.
RECURSIVE StdSort(_, _)
StdSort(seq, specs) ==
    IF seq = <<>>
        THEN {<<>>}
        ELSE LET x == Head(seq)
             IN  {InsertAt(s, k, x) :
                    <<s, k>> \in
                        {<<t, n>> \in StdSort(Tail(seq), specs) \X (0..(Len(seq) - 1)) :
                            /\ \A i \in 1..n : ~sortPatterns(specs, x, t[i])
                            /\ \A j \in (n + 1)..Len(t) : ~sortPatterns(specs, t[j], x)}}

\* the patterns that hold a collection of entries Pattern::sort reorders
Sortable == {p \in Patterns : Pattern[p].kind \in {"struct", "union", "arraydynamic"}}

RECURSIVE Subtree(_)
Subtree(id) ==
    {id}
    \cup UNION {Subtree(Pattern[id].entries[i]) : i \in 1..Len(Pattern[id].entries)}
    \cup (IF Pattern[id].pointee = "" THEN {} ELSE Subtree(Pattern[id].pointee))

SubtreeOf(seq) == UNION {Subtree(seq[i]) : i \in 1..Len(seq)}

\* Pattern::sort(comparator) on every pattern of cs: each one's entries are
\* sorted with the comparator
RECURSIVE PatternSort(_, _, _)
PatternSort(cs, mem, specs) ==
    IF cs = {}
        THEN {mem}
        ELSE LET c == CHOOSE x \in cs : TRUE
             IN  UNION {PatternSort(cs \ {c}, [mem EXCEPT ![c] = s], specs) :
                            s \in StdSort(mem[c], specs)}

needsSortAlways(patterns, sortedPatterns, specs) ==
    patterns # <<>>

\* beginPatternTable: !patterns.empty() && (sortSpecs->SpecsDirty || sortedPatterns.empty())
needsSort(patterns, sortedPatterns, specs) ==
    patterns # <<>> /\ (specs.SpecsDirty \/ sortedPatterns = <<>>)

consumeSpecsKeepDirty(specs) == specs

\* beginPatternTable: sortSpecs->SpecsDirty = false
consumeSpecs(specs) == [specs EXCEPT !.SpecsDirty = FALSE]

\* beginPatternTable with BeginTable returning true: the possible outcomes
beginPatternTable(patterns, sortedPatterns, mem, specs) ==
    LET cleared == IF patterns = <<>> THEN <<>> ELSE sortedPatterns
        reach == SubtreeOf(patterns) \cap Sortable
    IN  IF needsSort(patterns, cleared, specs)
            THEN {[sorted |-> s, members |-> m, specs |-> consumeSpecs(specs),
                   ran |-> TRUE,
                   comparator |-> \/ Len(patterns) >= 2
                                  \/ \E c \in reach : Len(mem[c]) >= 2] :
                    s \in StdSort(patterns, specs),
                    m \in PatternSort(reach, mem, specs)}
            ELSE {[sorted |-> cleared, members |-> mem, specs |-> specs,
                   ran |-> FALSE, comparator |-> FALSE]}

\* BeginTable returned false: nothing is touched
tableClosed(sortedPatterns, mem, specs) ==
    {[sorted |-> sortedPatterns, members |-> mem, specs |-> specs,
      ran |-> FALSE, comparator |-> FALSE]}

----------------------------------------------------------------------------
(* The top-level draw *)

RECURSIVE drawAll(_, _, _, _)
\* for (auto &pattern : this->m_sortedPatterns) this->draw(*pattern)
drawAll(st, sorted, i, e) ==
    IF i > Len(sorted)
        THEN st
        ELSE LET s == draw(st, Ref(sorted[i]), "", e)
             IN  IF Evaluated(s) THEN drawAll(s, sorted, i + 1, e) ELSE s

\* the pattern whose placeholder row is the dbl-th of the rows, "" if none
MoreTarget(rs, dbl) ==
    LET more == {i \in 1..Len(rs) : rs[i].kind = "more"}
        hit == {i \in more : Cardinality({j \in more : j <= i}) = dbl}
    IN  IF hit = {} THEN "" ELSE rs[CHOOSE i \in hit : TRUE].node

\* PatternDrawer::draw(patterns, height).  tableOpen: what ImGui::BeginTable
\* returns; open: the tree nodes the drawing surface reports open; dbl: which
\* placeholder row of the call is hovered and double-clicked (0: none);
\* click: which Selectable of the call is clicked (0: none).
Draw(patterns, tableOpen, open, dbl, click) ==
    \E r \in (IF tableOpen
                THEN beginPatternTable(patterns, m_sortedPatterns, members, sortSpecs)
                ELSE tableClosed(m_sortedPatterns, members, sortSpecs)) :
        \E st \in {IF tableOpen
                     THEN drawAll([rows |-> <<>>, visited |-> <<>>,
                                   displayEnd |-> m_displayEnd, depth |-> 0,
                                   pops |-> 0, underflow |-> FALSE, broke |-> FALSE, more |-> 0,
                                   selectables |-> 0, request |-> NoSelection],
                                  r.sorted, 1,
                                  [open |-> open, dbl |-> dbl, click |-> click,
                                   selection |-> selection, hidden |-> flags.hidden,
                                   sealed |-> flags.sealed, inlined |-> flags.inlined,
                                   members |-> r.members])
                     ELSE [rows |-> <<>>, visited |-> <<>>, displayEnd |-> m_displayEnd,
                           depth |-> 0, pops |-> 0, underflow |-> FALSE,
                           broke |-> FALSE, more |-> 0,
                           selectables |-> 0, request |-> NoSelection]} :
            /\ m_sortedPatterns' = r.sorted
            /\ members' = r.members
            /\ sortSpecs' = r.specs
            /\ m_displayEnd' = st.displayEnd
            /\ selection' = IF st.request.valid THEN st.request ELSE selection
            /\ rows' = st.rows
            /\ visited' = st.visited
            /\ call' = [tick |-> 1 - call.tick, patterns |-> patterns,
                        opened |-> tableOpen, dirty |-> sortSpecs.SpecsDirty,
                        repeat |-> /\ patterns # <<>>
                                   /\ call.patterns = patterns
                                   /\ call.opened
                                   /\ ~marked,
                        ran |-> r.ran,
                        comparator |-> r.comparator,
                        depth |-> st.depth, pops |-> st.pops,
                        underflow |-> st.underflow]
            /\ marked' = FALSE
            /\ reveals' = [n \in DOMAIN reveals |->
                            IF n = MoreTarget(st.rows, dbl)
                                THEN reveals[n] + 1
                                ELSE reveals[n]]
            /\ UNCHANGED flags

\* the user clicks a column header: ImGui sets the column, the direction and SpecsDirty
SetSortSpecs(column, direction) ==
    /\ sortSpecs' = [SpecsDirty |-> TRUE, ColumnUserID |-> column, SortDirection |-> direction]
    /\ marked' = TRUE
    /\ UNCHANGED <<m_sortedPatterns, m_displayEnd, members, flags, selection, rows,
                   visited, call, reveals>>

\* the selection changes elsewhere in the application
SetSelection(sel) ==
    /\ selection' = sel
    /\ selection # sel
    /\ UNCHANGED <<m_sortedPatterns, m_displayEnd, members, flags, sortSpecs, rows,
                   visited, call, marked, reveals>>

InitCall ==
    [tick |-> 0, patterns |-> <<>>, opened |-> FALSE, dirty |-> FALSE,
     repeat |-> FALSE, ran |-> FALSE,
     comparator |-> FALSE, depth |-> 0, pops |-> 0, underflow |-> FALSE]

\* the state after construction, common part; the table's sort specs start
\* dirty on the DefaultSort column, offset
InitCommon ==
    /\ m_sortedPatterns = <<>>
    /\ m_displayEnd = <<>>
    /\ members = [c \in {p \in Patterns : Pattern[p].kind \in
                            {"struct", "union", "bitfield", "arraydynamic"}} |->
                    Pattern[c].entries]
    /\ sortSpecs = [SpecsDirty |-> TRUE, ColumnUserID |-> "offset",
                    SortDirection |-> "Ascending"]
    /\ selection = NoSelection
    /\ rows = <<>>
    /\ visited = <<>>
    /\ call = InitCall
    /\ marked = FALSE
    /\ reveals = [n \in {p \in Patterns : Pattern[p].kind \in ArrayKinds} |-> 0]

NoFlags == [hidden |-> {}, sealed |-> {}, inlined |-> {}]

----------------------------------------------------------------------------
(* Spec: the Sort Engine.  Root sequences of scalars and of one struct, every *)
(* column id (one unknown), both directions.                                  *)

SortRoots == {<<>>, <<"x", "y", "z">>, <<"st", "z">>}
SortColumns == Columns \cup {"garbage"}
Directions == {"Ascending", "Descending"}

Init ==
    /\ InitCommon
    /\ flags = NoFlags

Next ==
    \/ \E patterns \in SortRoots, tableOpen \in BOOLEAN, open \in {{}, {TreeId("st")}} :
            Draw(patterns, tableOpen, open, 0, 0)
    \/ \E column \in SortColumns, direction \in Directions :
            SetSortSpecs(column, direction)

Spec == Init /\ [][Next]_vars

----------------------------------------------------------------------------
(* Properties of the Sort Engine *)

\* a step that is a top-level draw call
DrawStep == call'.tick # call.tick

\* the roots the call drew, in the order it drew them
IsRootVisit(v) == v.via = ""
RootsOf(v) ==
    LET r == SelectSeq(v, IsRootVisit)
    IN  [i \in 1..Len(r) |-> r[i].node]

Occurrences(seq, x) == Cardinality({i \in 1..Len(seq) : seq[i] = x})

IsPermutation(s, t) ==
    /\ Len(s) = Len(t)
    /\ \A i \in 1..Len(t) : Occurrences(s, t[i]) = Occurrences(t, t[i])

\* C4: when a call recomputes the order with one of the six known keys, the
\* cached order, which is the order the roots are drawn in, is non-increasing
\* in the key for Ascending and non-decreasing for Descending; offsets
\* 10, 5, 20 sorted by offset Ascending are displayed as 20, 10, 5.
C4_SortOrder ==
    (call.ran /\ ~marked /\ sortSpecs.ColumnUserID \in Columns) =>
        LET s == m_sortedPatterns
            col == sortSpecs.ColumnUserID
        IN  /\ RootsOf(visited) = s
            /\ sortSpecs.SortDirection = "Ascending" =>
                 \A i, j \in 1..Len(s) : i < j => Pattern[s[i]][col] >= Pattern[s[j]][col]
            /\ sortSpecs.SortDirection = "Descending" =>
                 \A i, j \in 1..Len(s) : i < j => Pattern[s[i]][col] =< Pattern[s[j]][col]
            /\ ( /\ call.patterns = <<"x", "y", "z">>
                 /\ col = "offset"
                 /\ sortSpecs.SortDirection = "Ascending" ) => s = <<"z", "x", "y">>

C4_Witness ==
    /\ call.ran
    /\ ~marked
    /\ call.patterns = <<"x", "y", "z">>
    /\ sortSpecs.ColumnUserID = "offset"
    /\ sortSpecs.SortDirection = "Ascending"
    /\ RootsOf(visited) = <<"z", "x", "y">>

\* C5 as stated: a call invokes the comparator only if the spec is dirty or
\* the cached order is empty at that call, and the roots are not empty; a
\* call that follows a call with the same non-empty roots, the spec not marked
\* dirty in between, invokes no comparator and displays the same order.
C5_AsStated ==
    [][DrawStep =>
        /\ call'.comparator =>
            /\ sortSpecs.SpecsDirty \/ m_sortedPatterns = <<>>
            /\ call'.patterns # <<>>
        /\ ( /\ call'.patterns # <<>>
             /\ call'.patterns = call.patterns
             /\ ~marked ) =>
                /\ ~call'.comparator
                /\ RootsOf(visited') = RootsOf(visited)]_vars

\* C5, amended: the same, for two consecutive calls that both open the table.
C5_NoResort ==
    [][DrawStep =>
        /\ call'.comparator =>
            /\ sortSpecs.SpecsDirty \/ m_sortedPatterns = <<>>
            /\ call'.patterns # <<>>
        /\ ( /\ call'.patterns # <<>>
             /\ call'.patterns = call.patterns
             /\ ~marked
             /\ call.opened
             /\ call'.opened ) =>
                /\ ~call'.comparator
                /\ RootsOf(visited') = RootsOf(visited)]_vars

C5_Witness ==
    /\ call.repeat
    /\ call.opened
    /\ ~call.comparator
    /\ Len(RootsOf(visited)) >= 2

\* C7: a recomputation with a column id that is none of the six keys leaves
\* the roots in the order they were passed in.
C7_UnknownKeyKeepsOrder ==
    (call.ran /\ ~marked /\ sortSpecs.ColumnUserID \notin Columns) =>
        /\ m_sortedPatterns = call.patterns
        /\ RootsOf(visited) = call.patterns

\* C9 as stated: a call that opens the table while SpecsDirty is set returns
\* with the flag clear, whatever the roots.
C9_AsStated ==
    (call.opened /\ call.dirty /\ ~marked) => ~sortSpecs.SpecsDirty

\* C9, amended: ... returns with the flag clear when the roots are not empty.
C9_DirtyConsumed ==
    (call.opened /\ call.dirty /\ ~marked /\ call.patterns # <<>>) =>
        ~sortSpecs.SpecsDirty

C9_Witness ==
    /\ call.opened
    /\ call.dirty
    /\ ~marked
    /\ call.patterns # <<>>
    /\ ~sortSpecs.SpecsDirty

\* C10: after a call that opens the table the cached order is a permutation
\* of the roots passed to that call, and only those roots are drawn as roots.
C10_CachePermutesRoots ==
    (call.opened /\ call.patterns # <<>>) =>
        /\ IsPermutation(m_sortedPatterns, call.patterns)
        /\ \A i \in 1..Len(RootsOf(visited)) :
                Occurrences(call.patterns, RootsOf(visited)[i]) > 0

----------------------------------------------------------------------------
(* SpecTree: the Visitor Dispatcher.  Every kind of composite as a root, with *)
(* at most one hidden pattern and one composite carrying any combination of   *)
(* sealed and inlined, the two being the same pattern when both are there.    *)

TreeRoots == <<"ptr", "st", "un", "bf", "dyn", "emp", "es">>
TreeHidden == {"st", "a", "ua", "f1", "e2", "pt"}
TreeMarked == {"st", "un", "bf", "ptr", "pt", "dyn", "emp", "es"}

\* the number of tree nodes the drawing surface reports closed in one call
MaxClosed == 1

TreeFlags ==
    {[hidden |-> h, sealed |-> s, inlined |-> i] :
        h \in {{}} \cup {{x} : x \in TreeHidden},
        s \in {{}} \cup {{x} : x \in TreeMarked},
        i \in {{}} \cup {{x} : x \in TreeMarked}}

\* the tree nodes the drawing surface can report open while seq is drawn
OpenIds(seq) ==
    LET cs == SubtreeOf(seq) \cap Composites
        n(c) == IF Pattern[c].kind = "arraystatic"
                    THEN Pattern[c].count
                    ELSE Len(Pattern[c].entries)
    IN  {TreeId(c) : c \in cs}
        \cup UNION {{ChunkId(c, k * ChunkSize) :
                        k \in {j \in 0..(MaxOpenChunk - 1) : j * ChunkSize < n(c)}} :
                    c \in {a \in cs : Pattern[a].kind \in ArrayKinds}}

TreeOpenSets ==
    {OpenIds(TreeRoots) \ closed :
        closed \in {c \in SUBSET OpenIds(TreeRoots) : Cardinality(c) <= MaxClosed}}

InitTree ==
    /\ InitCommon
    /\ flags \in {f \in TreeFlags :
                    /\ f.sealed = {} \/ f.inlined = {} \/ f.sealed = f.inlined
                    /\ f.hidden = {} \/ (f.sealed \cup f.inlined) \subseteq f.hidden}

NextTree ==
    \E open \in TreeOpenSets : Draw(TreeRoots, TRUE, open, 0, 0)

SpecTree == InitTree /\ [][NextTree]_vars

RowsOf(n) == {i \in 1..Len(rows) : rows[i].node = n /\ rows[i].kind \in {"leaf", "tree", "flat"}}
VisitsOf(n) == {i \in 1..Len(visited) : visited[i].node = n}

\* C1: no row is emitted for a hidden pattern, no hidden pattern is visited
\* and no pattern is visited through a hidden one.
C1_HiddenSkipped ==
    /\ \A i \in 1..Len(rows) : rows[i].node \notin flags.hidden
    /\ \A i \in 1..Len(visited) :
        /\ visited[i].node \notin flags.hidden
        /\ visited[i].via \notin flags.hidden

SealedOneRow(n) ==
    /\ Cardinality(RowsOf(n)) = Cardinality(VisitsOf(n))
    /\ \A i \in RowsOf(n) : rows[i].kind = "flat"
    /\ \A i \in 1..Len(rows) : rows[i].node = n => rows[i].kind \notin {"chunk", "more"}
    /\ \A i \in 1..Len(visited) : visited[i].via # n

----------------------------------------------------------------------------
(* SpecPage: the Disclosure Controller.  The static array of BigCount entries *)
(* and the dynamic array of three, plain, inlined, or with hidden entries.    *)

PageRoots == {<<"big", "dyn">>}
PageFlags ==
    {NoFlags,
     [hidden |-> {}, sealed |-> {}, inlined |-> {"big"}],
     [hidden |-> {"t"}, sealed |-> {}, inlined |-> {}]}

\* the placeholder rows of one call that can be the double-clicked one: the
\* first MaxDbl of them
MaxDbl == 1

InitPage ==
    /\ InitCommon
    /\ flags \in PageFlags

NextPage ==
    \/ \E patterns \in PageRoots, dbl \in 0..MaxDbl :
        \E open \in SUBSET OpenIds(<<"big">>) :
            Draw(patterns, TRUE, open \cup OpenIds(<<"dyn">>), dbl, 0)
    \/ SetSortSpecs("offset", "Descending")

SpecPage == InitPage /\ [][NextPage]_vars

Arrays == {p \in Patterns : Pattern[p].kind \in ArrayKinds}

\* C2: the disclosure count of a pattern is 50 + 50k after k double-clicks on
\* its placeholder row, 50 when first created; an entry is never removed and
\* never decreases, and a call without a double-click on the pattern's
\* placeholder leaves it as it was.
C2_DisclosureCount ==
    [][ /\ \A n \in DOMAIN m_displayEnd :
            /\ n \in DOMAIN m_displayEnd'
            /\ m_displayEnd'[n] >= m_displayEnd[n]
            /\ reveals'[n] = reveals[n] => m_displayEnd'[n] = m_displayEnd[n]
        /\ \A n \in DOMAIN m_displayEnd' :
            /\ m_displayEnd'[n] = 50 + 50 * reveals'[n]
            /\ (n \notin DOMAIN m_displayEnd /\ reveals'[n] = reveals[n])
                    => m_displayEnd'[n] = 50 ]_vars

C2_Witness ==
    /\ "big" \in DOMAIN m_displayEnd
    /\ m_displayEnd["big"] = 150
    /\ reveals["big"] = 2

\* the chunk summaries and the placeholder of array n among rs, in order
PageRows(rs, n) ==
    SelectSeq(rs, LAMBDA r : r.node = n /\ r.kind \in {"chunk", "more"})

\* the chunk loop of array n ran in the call that left rs and vs
Looped(rs, vs, n) ==
    /\ \E i \in 1..Len(vs) : vs[i].node = n
    /\ \/ n \in flags.inlined
       \/ \E i \in 1..Len(rs) : rs[i].node = n /\ rs[i].kind = "tree" /\ rs[i].open

\* C3: an open array of N > 0 entries whose disclosure count is R when the
\* call starts gets min(ceil(N / ChunkSize), R) chunk summaries, in index
\* order, then one placeholder if ceil(N / ChunkSize) > R and nothing else,
\* also when the placeholder is double-clicked in that call.
C3_ChunkRows ==
    [][DrawStep =>
        \A n \in Arrays :
            LET N == IF Pattern[n].kind = "arraystatic"
                        THEN Pattern[n].count
                        ELSE Len(members'[n])
                R == IF n \in DOMAIN m_displayEnd THEN m_displayEnd[n] ELSE 50
                total == (N + ChunkSize - 1) \div ChunkSize
                shown == IF total < R THEN total ELSE R
                rs == rows'
                pr == PageRows(rs, n)
            IN  (N > 0 /\ Looped(rs, visited', n)) =>
                    /\ Len(pr) = shown + (IF total > R THEN 1 ELSE 0)
                    /\ \A k \in 1..shown :
                        /\ pr[k].kind = "chunk"
                        /\ pr[k].first = (k - 1) * ChunkSize
                        /\ pr[k].last = (IF k * ChunkSize < N THEN k * ChunkSize ELSE N) - 1
                    /\ total > R => pr[shown + 1].kind = "more"]_vars

\* the call in which the placeholder of "big" was double-clicked for the first
\* time: 50 chunk summaries, the placeholder, nothing after it
C3_Witness ==
    /\ reveals["big"] = 1
    /\ "big" \in DOMAIN m_displayEnd
    /\ m_displayEnd["big"] = 100
    /\ Len(PageRows(rows, "big")) = 51
    /\ PageRows(rows, "big")[51].kind = "more"
    /\ PageRows(rows, "big")[50].first = 2450

----------------------------------------------------------------------------
(* SpecSelect: the Selection Highlighter.  A struct spanning [100,110) with  *)
(* its members, an empty struct at 106 and a scalar at [10,14), under every   *)
(* selection of Selections and those a click on a row requests.              *)

SelectRoots == {<<"st", "es", "x">>}
Selections == {NoSelection, Region(105, 3), Region(0, 10), Region(104, 1)}

\* the Selectables of one call that can be the clicked one: the first MaxClick
MaxClick == 1

InitSelect ==
    /\ InitCommon
    /\ flags \in {NoFlags,
                 [hidden |-> {}, sealed |-> {"st"}, inlined |-> {}],
                 [hidden |-> {}, sealed |-> {}, inlined |-> {"st"}]}

NextSelect ==
    \/ \E patterns \in SelectRoots, open \in SUBSET OpenIds(<<"st">>), click \in 0..MaxClick :
            Draw(patterns, TRUE, open, 0, click)
    \/ \E sel \in Selections : SetSelection(sel)

SpecSelect == InitSelect /\ [][NextSelect]_vars

Bytes(address, size) == address..(address + size - 1)

\* C6: the name of a pattern's row is drawn highlighted iff there is a
\* selection and the bytes [offset, offset + size) of the pattern meet it; a
\* pattern spanning [100,110) is highlighted under the selection [105,108)
\* and not under [0,10).
C6_Highlight ==
    [][DrawStep =>
        \A i \in 1..Len(rows') :
            LET r == rows'[i]
            IN  r.kind \in {"leaf", "tree", "flat"} =>
                    /\ r.hl <=> /\ selection.valid
                                /\ Bytes(r.off, r.size)
                                    \cap Bytes(selection.address, selection.size) # {}
                    /\ (r.off = 100 /\ r.size = 10 /\ selection = Region(105, 3)) => r.hl
                    /\ (r.off = 100 /\ r.size = 10 /\ selection = Region(0, 10)) => ~r.hl]_vars

C6_Witness ==
    /\ \E i \in 1..Len(rows) : rows[i].node = "st" /\ rows[i].hl
    /\ \E i \in 1..Len(rows) : rows[i].node = "a" /\ ~rows[i].hl
    /\ \E i \in 1..Len(rows) : rows[i].node = "b" /\ rows[i].hl
    /\ \E i \in 1..Len(rows) : rows[i].node = "es" /\ ~rows[i].hl

----------------------------------------------------------------------------
(* The aggregate range of a chunk summary, checked under SpecPage *)

\* the entry of array n at index i, in the order the last call drew it
EntryAt(n, i) ==
    IF Pattern[n].kind = "arraystatic"
        THEN [off |-> Pattern[n].offset + i * Pattern[Pattern[n].pointee].size,
              size |-> Pattern[Pattern[n].pointee].size]
        ELSE [off |-> Pattern[members[n][i + 1]].offset,
              size |-> Pattern[members[n][i + 1]].size]

\* C11: for every chunk summary row, last entry's offset - first entry's
\* offset + last entry's size does not wrap around in unsigned arithmetic,
\* and the range of that size starting at the first entry's offset contains
\* the bytes of every entry of the chunk, also after the entries were sorted.
C11_ChunkRange ==
    \A k \in 1..Len(rows) :
        LET r == rows[k]
        IN  r.kind = "chunk" =>
                LET startOffset == EntryAt(r.node, r.first).off
                    endOffset == EntryAt(r.node, r.last).off
                    endSize == EntryAt(r.node, r.last).size
                IN  /\ endOffset >= startOffset
                    /\ (endOffset - startOffset) + endSize < Modulus
                    /\ r.size = (endOffset - startOffset) + endSize
                    /\ \A i \in r.first..r.last :
                        /\ EntryAt(r.node, i).off >= r.off
                        /\ EntryAt(r.node, i).off + EntryAt(r.node, i).size <= r.off + r.size

----------------------------------------------------------------------------
(* SpecNest: the tree levels of the drawing surface.  Every kind of composite *)
(* as roots, or the static array "big"; one composite at a time carries any   *)
(* combination of sealed and inlined, the pointee may be hidden; all tree     *)
(* nodes are open, or all but one; the placeholder may be double-clicked.     *)

NestRoots == {TreeRoots, <<"big">>}
NestMarked == TreeMarked \cup {"big"}

NestFlags ==
    {[hidden |-> {}, sealed |-> s, inlined |-> i] :
        s \in {{}} \cup {{x} : x \in NestMarked},
        i \in {{}} \cup {{x} : x \in NestMarked}}
    \cup {[hidden |-> {"pt"}, sealed |-> {}, inlined |-> {}]}

NestOpenSets(patterns) ==
    {OpenIds(patterns)} \cup {OpenIds(patterns) \ {c} : c \in OpenIds(patterns)}

InitNest ==
    /\ InitCommon
    /\ flags \in {f \in NestFlags : f.sealed = {} \/ f.inlined = {} \/ f.sealed = f.inlined}

NextNest ==
    \/ \E patterns \in NestRoots :
        \E open \in NestOpenSets(patterns) : Draw(patterns, TRUE, open, 0, 0)
    \/ \E dbl \in 1..MaxDbl : Draw(<<"big">>, TRUE, OpenIds(<<"big">>), dbl, 0)

SpecNest == InitNest /\ [][NextNest]_vars

\* the pattern n is an entry, the template or the pointee of; "" for a root
ParentOf(n) ==
    LET ps == {c \in Patterns :
                \/ \E i \in 1..Len(Pattern[c].entries) : Pattern[c].entries[i] = n
                \/ Pattern[c].pointee = n}
    IN  IF ps = {} THEN "" ELSE CHOOSE c \in ps : TRUE

\* the tree levels pushed around the children of c while they are drawn: the
\* tree node of its header unless c is inlined, and the chunk's tree node
LevelsOf(c) ==
    (IF c \in flags.inlined THEN 0 ELSE 1)
    + (IF Pattern[c].kind \in ArrayKinds THEN 1 ELSE 0)

\* the tree level at which the row of pattern n is drawn if every tree node
\* around it was pushed once and every one before it was popped once
RECURSIVE NestLevel(_)
NestLevel(n) ==
    IF ParentOf(n) = ""
        THEN 0
        ELSE NestLevel(ParentOf(n)) + LevelsOf(ParentOf(n))

Pushes(r) == r.open /\ r.kind \in {"tree", "chunk"}

\* C12: in every top-level draw call the tree node of every open header that
\* is neither sealed nor inlined and of every open chunk summary pushes one
\* level, which is popped once after its children; nothing else is popped;
\* every row is drawn at the level of the open tree nodes around it and the
\* level is zero when the call returns, also after the placeholder row.
C12_TreeBalanced ==
    /\ call.depth = 0
    /\ ~call.underflow
    /\ call.pops = Cardinality({k \in 1..Len(rows) : Pushes(rows[k])})
    /\ \A k \in 1..Len(rows) :
        LET r == rows[k]
        IN  /\ r.kind \in {"leaf", "flat", "more"} => ~r.open
            /\ (r.kind = "tree" /\ r.open) =>
                    r.node \notin flags.sealed /\ r.node \notin flags.inlined
            /\ r.kind \in {"leaf", "flat", "tree"} => r.depth = NestLevel(r.node)
            /\ r.kind \in {"chunk", "more"} =>
                    r.depth = NestLevel(r.node)
                                + (IF r.node \in flags.inlined THEN 0 ELSE 1)

\* a call that drew the inlined array "big" with an open chunk and stopped at
\* its placeholder: the chunk's level was pushed and popped, no other
C12_Witness ==
    /\ flags.inlined = {"big"}
    /\ call.pops > 0
    /\ call.depth = 0
    /\ \E k \in 1..Len(rows) : rows[k].kind = "chunk" /\ rows[k].open /\ rows[k].node = "big"
    /\ \E k \in 1..Len(rows) : rows[k].kind = "more" /\ rows[k].node = "big"
    /\ \E k \in 1..Len(rows) : rows[k].kind = "leaf" /\ rows[k].depth = 1

====
